---- MODULE Spec2Model ----
(***************************************************************************)
(* A model of plot.py (qtlab): the registry of named plots, the base Plot  *)
(* with its throttled update and its two notification handlers, and the    *)
(* dimension selection of Plot2D.add_data and Plot3D.add_data.             *)
(*                                                                         *)
(* Python values are modelled as follows.  An optional argument is a       *)
(* sequence of length at most one: <<>> is None (or "not passed"), <<v>>   *)
(* is the value v.  The tri-state autoupdate is one of the strings "None", *)
(* "True", "False".  A dict is a function whose domain is its key set.     *)
(* A Plot or Data object is identified by its index in plots or datas.     *)
(***************************************************************************)
EXTENDS Integers, Sequences, FiniteSets, TLC

VARIABLES
    now,        \* the value time.time() returns
    config,     \* qt.config, a dict; only the key "auto-update" is read
    datas,      \* the Data objects: a sequence of [nc, nv]
    conns,      \* the signal connections made with data.connect, in order
    plots,      \* the constructed Plot objects, in construction order
    plot_list,  \* Plot._plot_list, the process-wide registry
    calls,      \* history: the non-forced update calls made so far
    ev          \* history: what the last operation was and how it ended

vars == <<now, config, datas, conns, plots, plot_list, calls, ev>>

----------------------------------------------------------------------------
(* Bounds of the model.                                                    *)

MaxTime == 3        \* the clock runs over 0 .. MaxTime
MaxMintime == 2     \* mintime is drawn from 0 .. MaxMintime
MaxCalls == 2       \* non-forced update calls recorded in a behaviour
MaxPlots == 2       \* plots constructed in a behaviour of the registry model
MaxData == 2        \* bindings added to a plot in a behaviour
MaxNC == 3          \* coordinate columns of a Data object: 0 .. MaxNC
MaxNV == 2          \* value columns of a Data object: 1 .. MaxNV
MaxDim == 1         \* explicit column indices are drawn from 0 .. MaxDim

(* Defaults of the constructor's keyword arguments.                        *)
DefaultMaxpoints == 10000
DefaultMaxtraces == 5
DefaultMintime == 1

----------------------------------------------------------------------------
(* Small helpers.                                                          *)

NoneV == <<>>
Some(x) == <<x>>
IsNone(o) == o = <<>>
Val(o) == o[1]

Min(a, b) == IF a < b THEN a ELSE b

Digit == <<"0", "1", "2", "3", "4", "5", "6", "7", "8", "9">>

RECURSIVE str(_)
str(n) == IF n < 10 THEN Digit[n + 1] ELSE str(n \div 10) \o Digit[(n % 10) + 1]

AutoVals == {"None", "True", "False"}

EmptyDict == [k \in {} |-> 0]

(* The last operation: every field is present for every operation.         *)
(*   op       the operation                                                *)
(*   plot     the plot it acted on, 0 when none                            *)
(*   farg     update: the force argument as passed, <<>> when omitted      *)
(*   force    update: the effective force argument                         *)
(*   last     update: last_update when the call was made                   *)
(*   t, t2    update: the two readings of time.time()                      *)
(*   cfgau    update: the value read for the global auto-update flag       *)
(*   fired    update: _do_update was invoked                               *)
(*   hookfail update: _do_update raised                                    *)
(*   raised   the error that left the operation, "none" when it returned   *)
(*   warned   the plot name of the warning logged, <<>> when none          *)
(*   name     constructor, get: the name argument                          *)
(*   got      get: the plot returned, 0 when none                          *)
(*   data, coorddim, valdim   add_data: the arguments                      *)
(*   notices  add_data: the log entries written                            *)
(*   before, cbefore   add_data: the bindings and connections before       *)
EvNone ==
    [op |-> "init", plot |-> 0, farg |-> <<>>, force |-> FALSE, last |-> 0,
     t |-> 0, t2 |-> 0,
     cfgau |-> FALSE, fired |-> FALSE, hookfail |-> FALSE, hook |-> "none",
     raised |-> "none",
     warned |-> <<>>, name |-> "", got |-> 0, data |-> 0, coorddim |-> <<>>,
     valdim |-> <<>>, notices |-> {}, before |-> <<>>, cbefore |-> <<>>,
     args |-> <<>>, labels |-> <<>>, setters |-> <<>>]

----------------------------------------------------------------------------
(* The registry: namedlist.NamedList as plot.py uses it (base_name 'plot').*)
(* Its code is not part of the sources; it is modelled from the            *)
(* specification's Registry capability: new_unique_name, register, lookup. *)

PlotList_init == [list |-> EmptyDict, auto_counter |-> 0, base_name |-> "plot"]

(* new_item_name(item, name): the given name, or a fresh base_name<n>.     *)
NamedList_new_item_name(nl, name) ==
    IF name # ""
    THEN [nl |-> nl, name |-> name]
    ELSE [nl |-> [nl EXCEPT !.auto_counter = @ + 1],
          name |-> nl.base_name \o str(nl.auto_counter)]

(* add(name, item): item is stored under name.                             *)
NamedList_add(nl, name, item) ==
    [nl EXCEPT !.list = (name :> item) @@ @]

(* __getitem__(name): the item registered under name, or NotFound.         *)
NamedList_getitem(nl, name) ==
    IF name \in DOMAIN nl.list
    THEN [raised |-> "none", item |-> nl.list[name]]
    ELSE [raised |-> "NotFound", item |-> 0]

----------------------------------------------------------------------------
(* Data objects (data.Data, not part of the sources): column counts and    *)
(* signal connections.                                                     *)

Data_get_ncoordinates(ds, data) == ds[data].nc
Data_get_nvalues(ds, data) == ds[data].nv
Data_ncolumns(ds, data) == ds[data].nc + ds[data].nv

(* Data(path): the Data object loaded from the file path; fs maps the      *)
(* paths of the existing files to the shape of what they hold.             *)
Data__init__(fs, path) == fs[path]

(* data.format_label(dim): the label text of column dim (dims count from   *)
(* 0); any string, the empty one included.                                 *)
Data_format_label(ds, data, dim) == ds[data].labels[dim + 1]

(* data.connect(signal, callback of plot self)                             *)
Data_connect(cn, data, signal, cb, self) ==
    Append(cn, [data |-> data, signal |-> signal, cb |-> cb, plot |-> self])

----------------------------------------------------------------------------
(* Keyword arguments: a dictionary from keyword to value.                  *)

(* kwargs.get(key, default)                                                *)
Kwargs_get(kw, key, default) ==
    IF key \in DOMAIN kw THEN kw[key] ELSE default

(* The value passed for a keyword parameter whose default is None.         *)
Kwargs_opt(kw, key) ==
    IF key \in DOMAIN kw THEN Some(kw[key]) ELSE NoneV

(* misc.get_dict_keys(d, keys): the entries of d whose key is in keys.     *)
get_dict_keys(d, keys) == [k \in (DOMAIN d) \cap keys |-> d[k]]

----------------------------------------------------------------------------
(* Plot.add_data, Plot2D.add_data, Plot3D.add_data.                        *)
(* Each returns the plot object, the connections, the log entries written  *)
(* and the error raised.                                                   *)

(* A variant that refuses bindings beyond maxtraces.                       *)
Plot_add_data_capped(plot, cn, self, data, kwargs) ==
    IF Len(plot.data) >= plot.maxtraces
    THEN [plot |-> plot, conns |-> cn, notices |-> {}, raised |-> "none"]
    ELSE [plot |-> [plot EXCEPT !.data = Append(@, [data |-> data] @@ kwargs)],
          conns |-> Data_connect(
                   Data_connect(cn, data, "new-data-point", "_new_data_point_cb", self),
                   data, "new-data-block", "_new_data_block_cb", self),
          notices |-> {},
          raised |-> "none"]

Plot_add_data(plot, cn, self, data, kwargs) ==
    [plot |-> [plot EXCEPT !.data = Append(@, [data |-> data] @@ kwargs)],
     conns |-> Data_connect(
                   Data_connect(cn, data, "new-data-point", "_new_data_point_cb", self),
                   data, "new-data-block", "_new_data_block_cb", self),
     notices |-> {},
     raised |-> "none"]

Plot2D_coorddims(coorddim) ==
    IF IsNone(coorddim) THEN <<0>> ELSE <<Val(coorddim)>>

Plot2D_valdim_nofloor(ds, data, valdim) ==
    IF IsNone(valdim) THEN Data_get_ncoordinates(ds, data) ELSE Val(valdim)

Plot2D_valdim(ds, data, valdim) ==
    IF IsNone(valdim)
    THEN LET v == Data_get_ncoordinates(ds, data) IN IF v < 1 THEN 1 ELSE v
    ELSE Val(valdim)

Plot2D_notices(ds, data, coorddim, valdim) ==
    (IF IsNone(coorddim) /\ Data_get_ncoordinates(ds, data) > 1
     THEN {"Data object has multiple coordinates, using the first one"} ELSE {})
    \cup
    (IF IsNone(valdim) /\ Data_get_nvalues(ds, data) > 1
     THEN {"Data object has multiple values, using the first one"} ELSE {})

Plot2D_add_data(plot, cn, ds, self, data, coorddim, valdim, kwargs) ==
    LET r == Plot_add_data(plot, cn, self, data,
                 [coorddims |-> Plot2D_coorddims(coorddim),
                  valdim |-> Plot2D_valdim(ds, data, valdim)] @@ kwargs)
    IN  [r EXCEPT !.notices = Plot2D_notices(ds, data, coorddim, valdim)]

Plot3D_coorddims(coorddims) ==
    IF IsNone(coorddims) THEN <<0, 1>> ELSE Val(coorddims)

Plot3D_valdim_floor1(ds, data, valdim) ==
    IF IsNone(valdim)
    THEN LET v == Data_get_ncoordinates(ds, data) IN IF v < 1 THEN 1 ELSE v
    ELSE Val(valdim)

Plot3D_valdim(ds, data, valdim) ==
    IF IsNone(valdim)
    THEN LET v == Data_get_ncoordinates(ds, data) IN IF v < 2 THEN 2 ELSE v
    ELSE Val(valdim)

Plot3D_notices(ds, data, coorddims, valdim) ==
    (IF IsNone(coorddims) /\ Data_get_ncoordinates(ds, data) > 2
     THEN {"Data object has multiple coordinates, using the first two"} ELSE {})
    \cup
    (IF IsNone(valdim) /\ Data_get_nvalues(ds, data) > 1
     THEN {"Data object has multiple values, using the first one"} ELSE {})

Plot3D_add_data(plot, cn, ds, self, data, coorddims, valdim) ==
    LET r == Plot_add_data(plot, cn, self, data,
                 [coorddims |-> Plot3D_coorddims(coorddims),
                  valdim |-> Plot3D_valdim(ds, data, valdim)])
    IN  [r EXCEPT !.notices = Plot3D_notices(ds, data, coorddims, valdim)]

----------------------------------------------------------------------------
(* Plot2D.set_labels, Plot3D.set_labels.  Each returns the labels after    *)
(* the loop over the bindings and the label setters called, in order.      *)

SetterCall(fn, label, side) == [fn |-> fn, label |-> label, side |-> side]

(* if label != '': setter(label)                                           *)
SetIf(label, fn, side) ==
    IF label # "" THEN << SetterCall(fn, label, side) >> ELSE <<>>

(* One pass of the loop body of Plot2D.set_labels (lines 192-201).         *)
Plot2D_label_step(ds, datadict, l) ==
    LET data == datadict.data
        l1 == IF "right" \in DOMAIN datadict /\ l.right = ""
              THEN [l EXCEPT !.right =
                       Data_format_label(ds, data, datadict.coorddims[1])]
              ELSE IF l.left = ""
                   THEN [l EXCEPT !.left =
                            Data_format_label(ds, data, datadict.coorddims[1])]
                   ELSE l
    IN  IF "top" \in DOMAIN datadict /\ l1.top = ""
        THEN [l1 EXCEPT !.top = Data_format_label(ds, data, datadict.valdim)]
        ELSE IF l1.bottom = ""
             THEN [l1 EXCEPT !.bottom =
                      Data_format_label(ds, data, datadict.valdim)]
             ELSE l1

RECURSIVE Plot2D_label_loop(_, _, _)
Plot2D_label_loop(ds, bindings, l) ==
    IF bindings = <<>>
    THEN l
    ELSE Plot2D_label_loop(ds, Tail(bindings),
                           Plot2D_label_step(ds, Head(bindings), l))

Plot2D_set_labels(plot, ds, left, bottom, right, top) ==
    LET l == Plot2D_label_loop(ds, plot.data,
                 [left |-> left, bottom |-> bottom, right |-> right, top |-> top])
    IN  [labels |-> l,
         setters |-> SetIf(l.left, "set_xlabel", "")
                     \o SetIf(l.right, "set_xlabel", "right")
                     \o SetIf(l.bottom, "set_ylabel", "")
                     \o SetIf(l.top, "set_ylabel", "top")]

(* One pass of the loop body of Plot3D.set_labels (lines 260-267).         *)
Plot3D_label_step(ds, datadict, l) ==
    LET data == datadict.data
        l1 == IF l.x = ""
              THEN [l EXCEPT !.x =
                       Data_format_label(ds, data, datadict.coorddims[1])]
              ELSE l
        l2 == IF l1.y = ""
              THEN [l1 EXCEPT !.y =
                       Data_format_label(ds, data, datadict.coorddims[2])]
              ELSE l1
    IN  IF l2.z = ""
        THEN [l2 EXCEPT !.z = Data_format_label(ds, data, datadict.valdim)]
        ELSE l2

RECURSIVE Plot3D_label_loop(_, _, _)
Plot3D_label_loop(ds, bindings, l) ==
    IF bindings = <<>>
    THEN l
    ELSE Plot3D_label_loop(ds, Tail(bindings),
                           Plot3D_label_step(ds, Head(bindings), l))

(* A variant that asks the first binding only.                             *)
Plot3D_set_labels_first(plot, ds, x, y, z) ==
    LET l == Plot3D_label_loop(ds, SubSeq(plot.data, 1, Min(1, Len(plot.data))),
                               [x |-> x, y |-> y, z |-> z])
    IN  [labels |-> l,
         setters |-> SetIf(l.x, "set_xlabel", "")
                     \o SetIf(l.y, "set_ylabel", "")
                     \o SetIf(l.z, "set_zlabel", "")]

Plot3D_set_labels(plot, ds, x, y, z) ==
    LET l == Plot3D_label_loop(ds, plot.data, [x |-> x, y |-> y, z |-> z])
    IN  [labels |-> l,
         setters |-> SetIf(l.x, "set_xlabel", "")
                     \o SetIf(l.y, "set_ylabel", "")
                     \o SetIf(l.z, "set_zlabel", "")]

(* self.add_data(data, **kwargs): the method of the plot's class.  A       *)
(* Plot2D takes coorddim and valdim by name and every other keyword into   *)
(* the binding; a Plot3D takes coorddims and valdim and raises TypeError   *)
(* on any other keyword; a Plot takes every keyword into the binding.      *)
Class_add_data(plot, cn, ds, self, data, kwargs) ==
    CASE plot.kind = "Plot2D" ->
            Plot2D_add_data(plot, cn, ds, self, data,
                            Kwargs_opt(kwargs, "coorddim"),
                            Kwargs_opt(kwargs, "valdim"),
                            get_dict_keys(kwargs, DOMAIN kwargs \ {"coorddim", "valdim"}))
      [] plot.kind = "Plot3D" ->
            IF DOMAIN kwargs \subseteq {"coorddims", "valdim"}
            THEN Plot3D_add_data(plot, cn, ds, self, data,
                                 Kwargs_opt(kwargs, "coorddims"),
                                 Kwargs_opt(kwargs, "valdim"))
            ELSE [plot |-> plot, conns |-> cn, notices |-> {},
                  raised |-> "TypeError"]
      [] OTHER -> Plot_add_data(plot, cn, self, data, kwargs)

----------------------------------------------------------------------------
(* Plot.__init__ of class kind, with positional args and keywords kw.      *)
(* args is a sequence of arguments: Data objects, strings and anything     *)
(* else.  Returns the new plots, registry, connections and Data objects,   *)
(* and the error raised.                                                   *)

DataArg(d) == [type |-> "Data", data |-> d]
StrArg(path) == [type |-> "str", path |-> path]
OtherArg == [type |-> "other"]

(* os.path.isfile(path)                                                    *)
os_path_isfile(fs, path) == path \in DOMAIN fs

(* No file exists.                                                         *)
NoFiles == EmptyDict

(* The keywords the constructor hands on to add_data (line 83).            *)
DataArgKeys == {"coorddim", "coorddims", "valdim"}

(* The loop of lines 81-87; it ends at the first add_data that raises.     *)
RECURSIVE Plot_init_args(_, _, _, _, _, _, _)
Plot_init_args(plot, cn, ds, fs, self, args, kw) ==
    IF args = <<>>
    THEN [plot |-> plot, conns |-> cn, datas |-> ds, raised |-> "none"]
    ELSE LET arg == Head(args)
         IN  IF arg.type = "Data"
             THEN LET r == Class_add_data(plot, cn, ds, self, arg.data,
                                          get_dict_keys(kw, DataArgKeys))
                  IN  IF r.raised # "none"
                      THEN [plot |-> r.plot, conns |-> r.conns, datas |-> ds,
                            raised |-> r.raised]
                      ELSE Plot_init_args(r.plot, r.conns, ds, fs, self,
                                          Tail(args), kw)
             ELSE IF arg.type = "str" /\ os_path_isfile(fs, arg.path)
                  THEN LET ds2 == Append(ds, Data__init__(fs, arg.path))
                           r == Class_add_data(plot, cn, ds2, self, Len(ds2),
                                               EmptyDict)
                       IN  Plot_init_args(r.plot, r.conns, ds2, fs, self,
                                          Tail(args), kw)
                  ELSE Plot_init_args(plot, cn, ds, fs, self, Tail(args), kw)

(* The key under which the constructor registers the new plot (line 89).   *)
Plot_init_key(name, resolved) == name

(* When add_data raises, the constructor is left before line 89: the name  *)
(* was issued but nothing is registered, and the caller gets no plot; the  *)
(* object lives on only if a Data object bound before holds its handlers.  *)
Plot__init__(ps, pl, cn, ds, fs, kind, args, kw) ==
    LET self == Len(ps) + 1
        name == Kwargs_get(kw, "name", "")
        nn == NamedList_new_item_name(pl, name)
        obj == [kind |-> kind, name |-> nn.name,
                maxpoints |-> Kwargs_get(kw, "maxpoints", DefaultMaxpoints),
                maxtraces |-> Kwargs_get(kw, "maxtraces", DefaultMaxtraces),
                mintime |-> Kwargs_get(kw, "mintime", DefaultMintime),
                autoupdate |-> Kwargs_get(kw, "autoupdate", "None"),
                last_update |-> 0, data |-> <<>>]
        r == Plot_init_args(obj, cn, ds, fs, self, args, kw)
    IN  IF r.raised = "none"
        THEN [plots |-> Append(ps, r.plot),
              plot_list |-> NamedList_add(nn.nl, Plot_init_key(name, nn.name), self),
              conns |-> r.conns, datas |-> r.datas, raised |-> "none"]
        ELSE [plots |-> IF r.conns = cn THEN ps ELSE Append(ps, r.plot),
              plot_list |-> nn.nl,
              conns |-> r.conns, datas |-> r.datas, raised |-> r.raised]

(* Plot.set_maxpoints(val)                                                 *)
Plot_set_maxpoints(plot, val) == [plot EXCEPT !.maxpoints = val]

(* Plot.get(name)                                                          *)
Plot_get(pl, name) == NamedList_getitem(pl, name)

----------------------------------------------------------------------------
(* Plot.update and the two notification handlers.                          *)

(* What _do_update may do: return ("none"), raise an exception derived     *)
(* from Exception whose str() works, raise one derived from Exception      *)
(* whose str() raises (a unicode message, a failing __str__), or raise     *)
(* something not derived from Exception (KeyboardInterrupt, SystemExit).   *)
HookOutcomes == {"none", "Exception", "ExceptionNoStr", "BaseException"}

(* update has no except clause: whatever _do_update raises leaves it       *)
(* unchanged, so in direct calls of update one failure stands for all.     *)
DirectHookOutcomes == {"none", "Exception"}

(* self._config.get(key, default)                                          *)
Config_get_nodefault(cfg, key, default) ==
    IF key \in DOMAIN cfg THEN cfg[key] ELSE FALSE

Config_get(cfg, key, default) ==
    IF key \in DOMAIN cfg THEN cfg[key] ELSE default

ConfigVals == {EmptyDict, "auto-update" :> TRUE, "auto-update" :> FALSE}

(* The default of update's force parameter.                                *)
Plot_update_force_default_false == FALSE

Plot_update_force_default == TRUE

(* line 120: not force and self._autoupdate is not None and not            *)
(* self._autoupdate                                                        *)
Plot_update_blocked_mutant(force, autoupdate) ==
    ~force /\ autoupdate # "None" /\ autoupdate = "True"

Plot_update_blocked(force, autoupdate) ==
    ~force /\ autoupdate # "None" /\ autoupdate # "True"

(* line 124: force or (cfgau and dt > self._mintime)                       *)
Plot_update_due_ge(force, cfgau, dt, mintime) ==
    force \/ (cfgau /\ dt >= mintime)

Plot_update_due_noforce(force, cfgau, dt, mintime) ==
    cfgau /\ dt > mintime

Plot_update_due(force, cfgau, dt, mintime) ==
    force \/ (cfgau /\ dt > mintime)

(* Variants of update: one that redraws without recording the time, one    *)
(* that records the time only after _do_update returned, one that records  *)
(* the time of every call.                                                 *)
Plot_update_nostamp(plot, force, t1, t2, cfg, hook) ==
    IF Plot_update_blocked(force, plot.autoupdate)
       \/ ~Plot_update_due(force, Config_get(cfg, "auto-update", TRUE),
                           t1 - plot.last_update, plot.mintime)
    THEN [plot |-> plot, fired |-> FALSE, raised |-> "none", warned |-> <<>>]
    ELSE [plot |-> plot, fired |-> TRUE,
          raised |-> hook, warned |-> <<>>]

Plot_update_stamp_after(plot, force, t1, t2, cfg, hook) ==
    IF Plot_update_blocked(force, plot.autoupdate)
       \/ ~Plot_update_due(force, Config_get(cfg, "auto-update", TRUE),
                           t1 - plot.last_update, plot.mintime)
    THEN [plot |-> plot, fired |-> FALSE, raised |-> "none", warned |-> <<>>]
    ELSE [plot |-> IF hook = "none" THEN [plot EXCEPT !.last_update = t2] ELSE plot,
          fired |-> TRUE,
          raised |-> hook, warned |-> <<>>]

Plot_update_stamp_always(plot, force, t1, t2, cfg, hook) ==
    IF Plot_update_blocked(force, plot.autoupdate)
       \/ ~Plot_update_due(force, Config_get(cfg, "auto-update", TRUE),
                           t1 - plot.last_update, plot.mintime)
    THEN [plot |-> [plot EXCEPT !.last_update = t1], fired |-> FALSE,
          raised |-> "none", warned |-> <<>>]
    ELSE [plot |-> [plot EXCEPT !.last_update = t2], fired |-> TRUE,
          raised |-> hook, warned |-> <<>>]

(* A variant in which autoupdate True makes the redraw condition skip the  *)
(* global flag.                                                            *)
Plot_update_bypass(plot, force, t1, t2, cfg, hook) ==
    IF Plot_update_blocked(force, plot.autoupdate)
       \/ ~Plot_update_due(force,
               plot.autoupdate = "True" \/ Config_get(cfg, "auto-update", TRUE),
               t1 - plot.last_update, plot.mintime)
    THEN [plot |-> plot, fired |-> FALSE, raised |-> "none", warned |-> <<>>]
    ELSE [plot |-> [plot EXCEPT !.last_update = t2], fired |-> TRUE,
          raised |-> hook, warned |-> <<>>]

(* update(force): t1 and t2 are the two readings of time.time(), hook is   *)
(* what _do_update raises, "none" when it returns.                         *)
Plot_update(plot, force, t1, t2, cfg, hook) ==
    LET dt == t1 - plot.last_update
        quiet == [plot |-> plot, fired |-> FALSE, raised |-> "none", warned |-> <<>>]
    IN  IF Plot_update_blocked(force, plot.autoupdate)
        THEN quiet
        ELSE IF Plot_update_due(force, Config_get(cfg, "auto-update", TRUE),
                                dt, plot.mintime)
             THEN [plot |-> [plot EXCEPT !.last_update = t2],
                   fired |-> TRUE,
                   raised |-> hook,
                   warned |-> <<>>]
             ELSE quiet

(* What the handler does with an exception of self.update (lines 129-132): *)
(* the except clause takes what derives from Exception and evaluates       *)
(* str(e) for the warning; when str(e) itself raises, that exception       *)
(* leaves the handler and nothing is logged.                               *)
Plot_point_cb_except(plot, r) ==
    CASE r.raised = "Exception" ->
            [r EXCEPT !.raised = "none", !.warned = <<plot.name>>]
      [] r.raised = "ExceptionNoStr" ->
            [r EXCEPT !.raised = "StrError"]
      [] OTHER -> r

Plot_new_data_point_cb(plot, t1, t2, cfg, hook) ==
    Plot_point_cb_except(plot, Plot_update(plot, FALSE, t1, t2, cfg, hook))

Plot_new_data_block_cb(plot, t1, t2, cfg, hook) ==
    Plot_update(plot, FALSE, t1, t2, cfg, hook)

----------------------------------------------------------------------------
(* The throttling model: one Plot2D bound to one Data object, the clock,   *)
(* the global configuration, and calls of update and of the handlers.      *)

(* The state change of one call of update, r its result.  The second clock *)
(* reading and the outcome of _do_update exist only when the call redraws. *)
UpdateStep(op, p, farg, force, t2, hook, r) ==
    /\ r.fired \/ (t2 = now /\ hook = "none")
    /\ plots' = [plots EXCEPT ![p] = r.plot]
    /\ now' = IF r.fired THEN t2 ELSE now
    /\ calls' = IF force THEN calls
                ELSE Append(calls, [plot |-> p, t |-> now,
                                    flag |-> Config_get(config, "auto-update", TRUE),
                                    fired |-> r.fired,
                                    hookfail |-> r.fired /\ hook # "none"])
    /\ ev' = [EvNone EXCEPT !.op = op, !.plot = p, !.farg = farg, !.force = force,
                            !.last = plots[p].last_update, !.t = now,
                            !.t2 = IF r.fired THEN t2 ELSE now,
                            !.cfgau = Config_get(config, "auto-update", TRUE),
                            !.fired = r.fired,
                            !.hookfail = r.fired /\ hook # "none",
                            !.hook = IF r.fired THEN hook ELSE "none",
                            !.raised = r.raised, !.warned = r.warned]
    /\ UNCHANGED <<config, datas, conns, plot_list>>

(* What the next reading of a clock that read t may be.                    *)
TimesFrom(t) == t .. Min(t + 1, MaxTime)

Times2 == TimesFrom(now)

(* time passes                                                             *)
Tick ==
    /\ now < MaxTime
    /\ now' = now + 1
    /\ ev' = [EvNone EXCEPT !.op = "tick"]
    /\ UNCHANGED <<config, datas, conns, plots, plot_list, calls>>

(* the application sets or removes the global auto-update flag             *)
SetConfig ==
    /\ \E c \in ConfigVals \ {config} : config' = c
    /\ ev' = [EvNone EXCEPT !.op = "config"]
    /\ UNCHANGED <<now, datas, conns, plots, plot_list, calls>>

(* plot.update(), plot.update(force=True), plot.update(force=False)        *)
Update ==
    \E p \in 1 .. Len(plots), farg \in {NoneV, Some(TRUE), Some(FALSE)},
       t2 \in Times2, hook \in DirectHookOutcomes :
        LET force == IF IsNone(farg) THEN Plot_update_force_default ELSE Val(farg)
            r == Plot_update(plots[p], force, now, t2, config, hook)
        IN  /\ force \/ Len(calls) < MaxCalls
            /\ UpdateStep("update", p, farg, force, t2, hook, r)

(* a Data object emits new-data-point: one connected handler runs          *)
NewDataPointCb ==
    \E c \in 1 .. Len(conns), t2 \in Times2, hook \in HookOutcomes :
        /\ conns[c].cb = "_new_data_point_cb"
        /\ Len(calls) < MaxCalls
        /\ UpdateStep("point", conns[c].plot, Some(FALSE), FALSE, t2, hook,
                Plot_new_data_point_cb(plots[conns[c].plot], now, t2, config, hook))

(* a Data object emits new-data-block: one connected handler runs          *)
NewDataBlockCb ==
    \E c \in 1 .. Len(conns), t2 \in Times2, hook \in HookOutcomes :
        /\ conns[c].cb = "_new_data_block_cb"
        /\ Len(calls) < MaxCalls
        /\ UpdateStep("block", conns[c].plot, Some(FALSE), FALSE, t2, hook,
                Plot_new_data_block_cb(plots[conns[c].plot], now, t2, config, hook))

(* After Plot2D(d, mintime=m, autoupdate=a) with d a Data object of one    *)
(* coordinate and one value column.                                        *)
Init ==
    \E m \in 0 .. MaxMintime, a \in AutoVals, t0 \in 0 .. MaxTime, c \in ConfigVals :
        LET ds == << [nc |-> 1, nv |-> 1] >>
            r == Plot__init__(<<>>, PlotList_init, <<>>, ds, NoFiles, "Plot2D",
                              <<DataArg(1)>>, [mintime |-> m, autoupdate |-> a])
        IN  /\ now = t0
            /\ config = c
            /\ datas = ds
            /\ conns = r.conns
            /\ plots = r.plots
            /\ plot_list = r.plot_list
            /\ calls = <<>>
            /\ ev = EvNone

Next == Tick \/ SetConfig \/ Update \/ NewDataPointCb \/ NewDataBlockCb

Spec == Init /\ [][Next]_vars

----------------------------------------------------------------------------
(* The paired model: two Plot2D objects bound to the same Data object and  *)
(* constructed alike except that the first has autoupdate None and the     *)
(* second autoupdate True.  update is called on either plot and the Data   *)
(* object notifies either plot, one call at a time: every call reads the   *)
(* clock and the configuration itself and has its own outcome of           *)
(* _do_update, and the clock and the configuration may change between any  *)
(* two calls.  The log keeps, for each plot, its latest non-forced call:   *)
(* last_update as the call found it and as it left it, the clock value and *)
(* the global flag the call read, and whether it redrew.                   *)

PairLog(log, e) ==
    SelectSeq(log, LAMBDA c : c.plot < e.plot)
        \o << e >> \o SelectSeq(log, LAMBDA c : c.plot > e.plot)

(* The state change of one call of update on plot p, r its result.         *)
PairStep(op, p, force, t2, hook, r) ==
    /\ r.fired \/ (t2 = now /\ hook = "none")
    /\ plots' = [plots EXCEPT ![p] = r.plot]
    /\ now' = IF r.fired THEN t2 ELSE now
    /\ calls' = IF force THEN calls
                ELSE PairLog(calls, [plot |-> p, t |-> now,
                                     last |-> plots[p].last_update,
                                     after |-> r.plot.last_update,
                                     flag |-> Config_get(config, "auto-update", TRUE),
                                     fired |-> r.fired])
    /\ ev' = [EvNone EXCEPT !.op = op]
    /\ UNCHANGED <<config, datas, conns, plot_list>>

(* plot.update(), plot.update(force=True), plot.update(force=False) on     *)
(* either plot                                                             *)
PairUpdate ==
    \E p \in 1 .. Len(plots), farg \in {NoneV, Some(TRUE), Some(FALSE)},
       t2 \in Times2, hook \in DirectHookOutcomes :
        LET force == IF IsNone(farg) THEN Plot_update_force_default ELSE Val(farg)
        IN  PairStep("update", p, force, t2, hook,
                     Plot_update(plots[p], force, now, t2, config, hook))

(* the Data object emits new-data-point: one connected handler runs        *)
PairPoint ==
    \E c \in 1 .. Len(conns), t2 \in Times2, hook \in HookOutcomes :
        /\ conns[c].cb = "_new_data_point_cb"
        /\ PairStep("point", conns[c].plot, FALSE, t2, hook,
                Plot_new_data_point_cb(plots[conns[c].plot], now, t2, config, hook))

(* the Data object emits new-data-block: one connected handler runs        *)
PairBlock ==
    \E c \in 1 .. Len(conns), t2 \in Times2, hook \in HookOutcomes :
        /\ conns[c].cb = "_new_data_block_cb"
        /\ PairStep("block", conns[c].plot, FALSE, t2, hook,
                Plot_new_data_block_cb(plots[conns[c].plot], now, t2, config, hook))

InitPair ==
    \E m \in 0 .. MaxMintime, t0 \in 0 .. MaxTime, c \in ConfigVals :
        LET ds == << [nc |-> 1, nv |-> 1] >>
            r1 == Plot__init__(<<>>, PlotList_init, <<>>, ds, NoFiles, "Plot2D",
                               <<DataArg(1)>>, [mintime |-> m])
            r2 == Plot__init__(r1.plots, r1.plot_list, r1.conns, ds, NoFiles, "Plot2D",
                               <<DataArg(1)>>, [mintime |-> m, autoupdate |-> "True"])
        IN  /\ now = t0
            /\ config = c
            /\ datas = ds
            /\ conns = r2.conns
            /\ plots = r2.plots
            /\ plot_list = r2.plot_list
            /\ calls = <<>>
            /\ ev = EvNone

NextPair == Tick \/ SetConfig \/ PairUpdate \/ PairPoint \/ PairBlock

SpecPair == InitPair /\ [][NextPair]_vars

----------------------------------------------------------------------------
(* The registry model: plots of the three classes are constructed, with    *)
(* and without a name, looked up by name, and given a new maxpoints.       *)

CtorNames == {"", "a"}
LookupNames == CtorNames \cup {"plot0", "plot1", "c"}

(* Values passed to set_maxpoints: below and above the default.            *)
MaxpointsVals == {0, 20000}
Kinds == {"Plot", "Plot2D", "Plot3D"}

(* name=name when a name is given, no keyword otherwise                   *)
NameKw(name) == IF name = "" THEN EmptyDict ELSE [name |-> name]

(* kind(name=name) or kind(d, name=name) for the Data object d             *)
NewPlot ==
    \E kind \in Kinds, name \in CtorNames, args \in {<<>>, <<DataArg(1)>>} :
        LET r == Plot__init__(plots, plot_list, conns, datas, NoFiles, kind, args,
                              NameKw(name))
        IN  /\ Len(plots) < MaxPlots
            /\ plots' = r.plots
            /\ plot_list' = r.plot_list
            /\ conns' = r.conns
            /\ datas' = r.datas
            /\ ev' = [EvNone EXCEPT !.op = "new", !.plot = Len(plots) + 1,
                                    !.name = name, !.raised = r.raised]
            /\ UNCHANGED <<now, config, calls>>

(* Plot.get(name)                                                          *)
Get ==
    \E name \in LookupNames :
        LET r == Plot_get(plot_list, name)
        IN  /\ ev' = [EvNone EXCEPT !.op = "get", !.name = name, !.got = r.item,
                                    !.raised = r.raised]
            /\ UNCHANGED <<now, config, datas, conns, plots, plot_list, calls>>

InitReg ==
    /\ now = 0
    /\ config = EmptyDict
    /\ datas = << [nc |-> 1, nv |-> 1] >>
    /\ conns = <<>>
    /\ plots = <<>>
    /\ plot_list = PlotList_init
    /\ calls = <<>>
    /\ ev = EvNone

(* plot.set_maxpoints(val)                                                 *)
SetMaxpoints ==
    \E p \in 1 .. Len(plots), val \in MaxpointsVals :
        /\ plots' = [plots EXCEPT ![p] = Plot_set_maxpoints(plots[p], val)]
        /\ ev' = [EvNone EXCEPT !.op = "set_maxpoints", !.plot = p, !.got = val]
        /\ UNCHANGED <<now, config, datas, conns, plot_list, calls>>

NextReg == NewPlot \/ Get \/ SetMaxpoints

SpecReg == InitReg /\ [][NextReg]_vars

----------------------------------------------------------------------------
(* The binding model: one unnamed Plot2D or Plot3D and one Data object of  *)
(* nc coordinate and nv value columns, bound by add_data calls with and    *)
(* without explicit dimensions.                                            *)

Dims == 0 .. MaxDim
OptDim == {NoneV} \cup {Some(d) : d \in Dims}
OptDimPair == {NoneV} \cup {Some(<<a, b>>) : a \in Dims, b \in Dims}

AddDataStep(p, d, coorddim, valdim, r) ==
    /\ plots' = [plots EXCEPT ![p] = r.plot]
    /\ conns' = r.conns
    /\ ev' = [EvNone EXCEPT !.op = "add_data", !.plot = p, !.data = d,
                            !.coorddim = coorddim, !.valdim = valdim,
                            !.notices = r.notices, !.raised = r.raised,
                            !.before = plots[p].data, !.cbefore = conns]
    /\ UNCHANGED <<now, config, datas, plot_list, calls>>

(* plot.add_data(d), plot.add_data(d, coorddim=c, valdim=v) on a Plot2D    *)
AddData2D ==
    \E p \in 1 .. Len(plots), d \in 1 .. Len(datas),
       coorddim \in OptDim, valdim \in OptDim :
        /\ plots[p].kind = "Plot2D"
        /\ Len(plots[p].data) < MaxData
        /\ AddDataStep(p, d, coorddim, valdim,
               Plot2D_add_data(plots[p], conns, datas, p, d, coorddim, valdim,
                               EmptyDict))

(* plot.add_data(d), plot.add_data(d, coorddims=(a, b), valdim=v) on a     *)
(* Plot3D                                                                  *)
AddData3D ==
    \E p \in 1 .. Len(plots), d \in 1 .. Len(datas),
       coorddims \in OptDimPair, valdim \in OptDim :
        /\ plots[p].kind = "Plot3D"
        /\ Len(plots[p].data) < MaxData
        /\ AddDataStep(p, d, coorddims, valdim,
               Plot3D_add_data(plots[p], conns, datas, p, d, coorddims, valdim))

InitBind ==
    \E nc \in 0 .. MaxNC, nv \in 1 .. MaxNV, kind \in {"Plot2D", "Plot3D"} :
        LET ds == << [nc |-> nc, nv |-> nv] >>
            r == Plot__init__(<<>>, PlotList_init, <<>>, ds, NoFiles, kind, <<>>,
                              EmptyDict)
        IN  /\ now = 0
            /\ config = EmptyDict
            /\ datas = ds
            /\ conns = r.conns
            /\ plots = r.plots
            /\ plot_list = r.plot_list
            /\ calls = <<>>
            /\ ev = EvNone

NextBind == AddData2D \/ AddData3D

SpecBind == InitBind /\ [][NextBind]_vars

----------------------------------------------------------------------------
(* The subscription model: one plot of any of the three classes, made with *)
(* maxtraces=1, with or without positional arguments and dimension         *)
(* keywords, and two Data objects; the plot is bound with add_data(d) and  *)
(* the Data objects emit their two signals.                                *)

(* plot.add_data(d), the method of the plot's class, no dimensions given   *)
AddData ==
    \E p \in 1 .. Len(plots), d \in 1 .. Len(datas) :
        /\ Len(plots[p].data) < MaxData
        /\ AddDataStep(p, d, NoneV, NoneV,
               Class_add_data(plots[p], conns, datas, p, d, EmptyDict))

(* The files that exist, and the shape of the Data each loads.             *)
Files == ("measurement.dat" :> [nc |-> 1, nv |-> 1])

(* Positional arguments of the constructor: none, Data objects, the name   *)
(* of an existing and of a missing file, and something that is neither.    *)
CtorArgs ==
    { <<>>, <<DataArg(1)>>, <<DataArg(2), DataArg(1)>>,
      <<StrArg("measurement.dat")>>, <<StrArg("missing.dat")>>, <<OtherArg>>,
      <<StrArg("measurement.dat"), DataArg(1)>> }

(* Dimension keywords of the constructor.                                  *)
CtorDimKw ==
    { EmptyDict, [coorddim |-> 1], [valdim |-> 0],
      [coorddims |-> <<1, 0>>, valdim |-> 0] }

InitSub ==
    \E kind \in Kinds, args \in CtorArgs, dimkw \in CtorDimKw :
        LET ds == << [nc |-> 1, nv |-> 1], [nc |-> 2, nv |-> 1] >>
            r == Plot__init__(<<>>, PlotList_init, <<>>, ds, Files, kind, args,
                              [maxtraces |-> 1] @@ dimkw)
        IN  /\ now = 0
            /\ config = EmptyDict
            /\ datas = r.datas
            /\ conns = r.conns
            /\ plots = r.plots
            /\ plot_list = r.plot_list
            /\ calls = <<>>
            /\ ev = EvNone

NextSub == AddData \/ NewDataPointCb \/ NewDataBlockCb \/ Tick

SpecSub == InitSub /\ [][NextSub]_vars

----------------------------------------------------------------------------
(* The label model: a Plot2D or a Plot3D and two Data objects of two       *)
(* coordinates and one value, each column's label either empty or a text   *)
(* of its own; the plot is bound (a Plot2D also with right=True and        *)
(* top=True) and set_labels is called with any choice of explicit labels.  *)

LabelText(d, c) == "d" \o str(d) \o "c" \o str(c)

(* The labels of Data object d: empty on the columns in blank.             *)
LabelsOf(d, blank) ==
    [i \in 1 .. 3 |-> IF (i - 1) \in blank THEN "" ELSE LabelText(d, i - 1)]

(* The columns a plot of class kind reads with default dimensions.         *)
ColumnsRead(kind) == IF kind = "Plot2D" THEN {0, 2} ELSE {0, 1, 2}

(* right=True and top=True, each passed or not                             *)
AxisKwargs == { [k \in S |-> TRUE] : S \in SUBSET {"right", "top"} }

(* An explicit label or the default ''                                     *)
Arg(text) == {"", text}

AddDataLabelled ==
    \E p \in 1 .. Len(plots), d \in 1 .. Len(datas), kwargs \in AxisKwargs :
        /\ Len(plots[p].data) < MaxData
        /\ \/ /\ plots[p].kind = "Plot2D"
              /\ AddDataStep(p, d, NoneV, NoneV,
                     Plot2D_add_data(plots[p], conns, datas, p, d,
                                     NoneV, NoneV, kwargs))
           \/ /\ plots[p].kind = "Plot3D"
              /\ kwargs = EmptyDict
              /\ AddDataStep(p, d, NoneV, NoneV,
                     Plot3D_add_data(plots[p], conns, datas, p, d, NoneV, NoneV))

SetLabelsStep(op, p, args, r) ==
    /\ ev' = [EvNone EXCEPT !.op = op, !.plot = p, !.args = args,
                            !.labels = r.labels, !.setters = r.setters]
    /\ UNCHANGED <<now, config, datas, conns, plots, plot_list, calls>>

(* plot.set_labels(left=.., bottom=.., right=.., top=..) on a Plot2D       *)
SetLabels2D ==
    \E p \in 1 .. Len(plots), left \in Arg("L"), bottom \in Arg("B"),
       right \in Arg("R"), top \in Arg("T") :
        /\ plots[p].kind = "Plot2D"
        /\ SetLabelsStep("set_labels2d", p,
               [left |-> left, bottom |-> bottom, right |-> right, top |-> top],
               Plot2D_set_labels(plots[p], datas, left, bottom, right, top))

(* plot.set_labels(x=.., y=.., z=..) on a Plot3D                           *)
SetLabels3D ==
    \E p \in 1 .. Len(plots), x \in Arg("X"), y \in Arg("Y"), z \in Arg("Z") :
        /\ plots[p].kind = "Plot3D"
        /\ SetLabelsStep("set_labels3d", p, [x |-> x, y |-> y, z |-> z],
               Plot3D_set_labels(plots[p], datas, x, y, z))

InitLabels ==
    \E kind \in {"Plot2D", "Plot3D"} :
    \E blank1 \in SUBSET ColumnsRead(kind), blank2 \in SUBSET ColumnsRead(kind) :
        LET ds == << [nc |-> 2, nv |-> 1, labels |-> LabelsOf(1, blank1)],
                     [nc |-> 2, nv |-> 1, labels |-> LabelsOf(2, blank2)] >>
            r == Plot__init__(<<>>, PlotList_init, <<>>, ds, NoFiles, kind, <<>>,
                              EmptyDict)
        IN  /\ now = 0
            /\ config = EmptyDict
            /\ datas = ds
            /\ conns = r.conns
            /\ plots = r.plots
            /\ plot_list = r.plot_list
            /\ calls = <<>>
            /\ ev = EvNone

NextLabels == AddDataLabelled \/ SetLabels2D \/ SetLabels3D

SpecLabels == InitLabels /\ [][NextLabels]_vars

----------------------------------------------------------------------------
(* Claims about update and the notification handlers, checked under Spec.  *)

NonForced == {"update", "point", "block"}

(* C1: two non-forced update calls of a plot made at most mintime apart,   *)
(* the global auto-update flag true at both, do not both invoke            *)
(* _do_update, whatever was called in between.                             *)
C1_Throttle ==
    \A i, j \in 1 .. Len(calls) :
        ( /\ i < j
          /\ calls[i].plot = calls[j].plot
          /\ calls[i].flag /\ calls[j].flag
          /\ calls[j].t - calls[i].t <= plots[calls[i].plot].mintime )
        => ~(calls[i].fired /\ calls[j].fired)

(* Two such calls exactly mintime > 0 apart, the first of which redrew.    *)
C1_Witness ==
    \E i, j \in 1 .. Len(calls) :
        /\ i < j
        /\ calls[i].plot = calls[j].plot
        /\ calls[i].flag /\ calls[j].flag
        /\ plots[calls[i].plot].mintime > 0
        /\ calls[j].t - calls[i].t = plots[calls[i].plot].mintime
        /\ calls[i].fired /\ ~calls[j].fired

(* C2: update(force=True) always invokes _do_update and leaves             *)
(* last_update at the current time.                                        *)
C2_ForceAlways ==
    (ev.op = "update" /\ ev.force)
    => /\ ev.fired
       /\ plots[ev.plot].last_update = now
       /\ plots[ev.plot].last_update = ev.t2

(* A forced update that redrew with autoupdate False, the global flag      *)
(* false and no time elapsed since the last redraw.                        *)
C2_Witness ==
    /\ ev.op = "update" /\ ev.force /\ ev.fired
    /\ plots[ev.plot].autoupdate = "False"
    /\ ~ev.cfgau
    /\ ev.t - ev.last <= plots[ev.plot].mintime

(* C3: with autoupdate explicitly False no non-forced update, direct or    *)
(* from either notification, invokes _do_update.                           *)
C3_OverrideFalse ==
    (ev.op \in NonForced /\ ~ev.force /\ plots[ev.plot].autoupdate = "False")
    => (~ev.fired /\ plots[ev.plot].last_update = ev.last)

(* A new-data-point notification on a plot with autoupdate False, the      *)
(* global flag true and more than mintime elapsed.                         *)
C3_Witness ==
    /\ ev.op = "point"
    /\ plots[ev.plot].autoupdate = "False"
    /\ ev.cfgau
    /\ ev.t - ev.last > plots[ev.plot].mintime

(* C4: a failure of _do_update never leaves _new_data_point_cb, which logs *)
(* a warning naming the plot; the same failure does leave                  *)
(* _new_data_block_cb.                                                     *)
C4_Propagation ==
    /\ (ev.op = "point" /\ ev.hookfail)
       => (ev.raised = "none" /\ ev.warned = <<plots[ev.plot].name>>)
    /\ (ev.op = "block" /\ ev.hookfail)
       => (ev.raised = ev.hook /\ ev.warned = <<>>)

(* The global auto-update flag: true when set true or absent.              *)
GlobalFlag(cfg) == "auto-update" \notin DOMAIN cfg \/ cfg["auto-update"]

(* The last call was a non-forced update.                                  *)
NonForcedCall(e) == e.op \in NonForced /\ ~e.force

(* What the throttle lets through: the conditions of a non-forced redraw.  *)
ThrottleAllows(e, plot, cfg) ==
    /\ plot.autoupdate # "False"
    /\ GlobalFlag(cfg)
    /\ e.t - e.last > plot.mintime

(* C11 as claimed: update called without the force argument redraws only   *)
(* when a non-forced update would.                                         *)
C11_DefaultNonForced ==
    (ev.op = "update" /\ IsNone(ev.farg))
    => (ev.fired <=> ThrottleAllows(ev, plots[ev.plot], config))

(* C11 as amended: update called without the force argument is a forced    *)
(* update; it always invokes _do_update and records the time, as           *)
(* update(force=True) does.                                                *)
C11_DefaultForced ==
    (ev.op = "update" /\ IsNone(ev.farg))
    => /\ ev.force
       /\ ev.fired
       /\ plots[ev.plot].last_update = ev.t2

(* update() redrew although autoupdate is False, the global flag is false  *)
(* and no more than mintime has passed.                                    *)
C11_Witness ==
    /\ ev.op = "update" /\ IsNone(ev.farg) /\ ev.fired
    /\ plots[ev.plot].autoupdate = "False"
    /\ ~GlobalFlag(config)
    /\ ev.t - ev.last <= plots[ev.plot].mintime

(* C12: last_update never decreases; a step that invokes _do_update leaves *)
(* it at the time of that invocation, and every other step leaves it as it *)
(* was, so it is always the time of the most recent invocation.            *)
C12_Monotone ==
    [][\A p \in 1 .. Len(plots) :
          /\ plots'[p].last_update >= plots[p].last_update
          /\ IF ev'.plot = p /\ ev'.fired
             THEN plots'[p].last_update = ev'.t2 /\ ev'.t2 = now'
             ELSE plots'[p].last_update = plots[p].last_update]_vars

(* A non-forced redraw that moved last_update forward from an earlier      *)
(* redraw.                                                                 *)
C12_Witness ==
    /\ NonForcedCall(ev) /\ ev.fired
    /\ ev.last > 0
    /\ plots[ev.plot].last_update > ev.last

(* C13: with autoupdate True a non-forced update made more than mintime    *)
(* after the last redraw invokes _do_update whatever the global flag is.   *)
C13_OverrideBypasses ==
    ( /\ NonForcedCall(ev)
      /\ plots[ev.plot].autoupdate = "True"
      /\ ev.t - ev.last > plots[ev.plot].mintime )
    => ev.fired

(* C14: a non-forced update invokes _do_update exactly when autoupdate is  *)
(* not False, the global flag is true or absent, and strictly more than    *)
(* mintime has passed since last_update.                                   *)
C14_Decision ==
    NonForcedCall(ev)
    => (ev.fired <=> ThrottleAllows(ev, plots[ev.plot], config))

(* update(force=False) exactly mintime > 0 after the last redraw, the      *)
(* global flag absent: no redraw.                                          *)
C14_Witness ==
    /\ ev.op = "update" /\ ev.farg = Some(FALSE)
    /\ plots[ev.plot].autoupdate = "None"
    /\ config = EmptyDict
    /\ plots[ev.plot].mintime > 0
    /\ ev.t - ev.last = plots[ev.plot].mintime
    /\ ~ev.fired

C16_StampBeforeHook ==
    /\ ev.hookfail
       => /\ ev.fired
          /\ plots[ev.plot].last_update = ev.t2
          /\ ev.t2 >= ev.t
    /\ \A i, j \in 1 .. Len(calls) :
          ( /\ i < j
            /\ calls[i].plot = calls[j].plot
            /\ calls[i].hookfail
            /\ calls[j].t - calls[i].t <= plots[calls[i].plot].mintime )
          => ~calls[j].fired

(* A non-forced update whose redraw failed, and a later one, after the     *)
(* clock moved but within mintime, that the throttle held back.            *)
C16_Witness ==
    \E i, j \in 1 .. Len(calls) :
        /\ i < j
        /\ calls[i].plot = calls[j].plot
        /\ calls[i].hookfail
        /\ calls[j].flag
        /\ plots[calls[i].plot].autoupdate # "False"
        /\ calls[j].t > calls[i].t
        /\ calls[j].t - calls[i].t <= plots[calls[i].plot].mintime
        /\ ~calls[j].fired

(* C20: an update call changes nothing of the plot but last_update, and    *)
(* nothing of the registry, the connections, the Data objects and the      *)
(* configuration; a non-forced call that autoupdate False, the global flag *)
(* or the throttle holds back does not invoke _do_update and leaves        *)
(* last_update as it was.                                                  *)
C20_Frame ==
    [][ev'.op \in NonForced =>
          /\ [plots'[ev'.plot] EXCEPT !.last_update = 0]
                = [plots[ev'.plot] EXCEPT !.last_update = 0]
          /\ \A q \in 1 .. Len(plots) : q # ev'.plot => plots'[q] = plots[q]
          /\ Len(plots') = Len(plots)
          /\ plot_list' = plot_list
          /\ conns' = conns
          /\ datas' = datas
          /\ config' = config
          /\ (~ev'.force /\ ~ThrottleAllows(ev', plots[ev'.plot], config))
               => ~ev'.fired
          /\ ~ev'.fired
               => plots'[ev'.plot].last_update = plots[ev'.plot].last_update]_vars

(* A non-forced update held back by the throttle alone after the clock     *)
(* moved past last_update.                                                 *)
C20_Witness ==
    /\ NonForcedCall(ev) /\ ~ev.fired
    /\ plots[ev.plot].autoupdate # "False"
    /\ GlobalFlag(config)
    /\ ev.t > ev.last
    /\ ev.t - ev.last <= plots[ev.plot].mintime
    /\ plots[ev.plot].last_update = ev.last

----------------------------------------------------------------------------
(* Claims about construction and the registry, checked under SpecReg.      *)

ResolvedNames == {plots[i].name : i \in 1 .. Len(plots)}

(* C5: right after a plot is constructed, Plot.get of its resolved name    *)
(* returns that plot, named or not; Plot.get of a name that is no plot's   *)
(* resolved name fails with NotFound.                                      *)
C5_Registered ==
    /\ ev.op = "new"
       => Plot_get(plot_list, plots[ev.plot].name) = [raised |-> "none", item |-> ev.plot]
    /\ (ev.op = "get" /\ ev.name \notin ResolvedNames)
       => ev.raised = "NotFound"

(* C6: when every plot constructed so far was unnamed (the i-th got the    *)
(* i-th generated name), the registry holds one entry per plot, each plot  *)
(* under its own name.                                                     *)
C6_DistinctNames ==
    (\A i \in 1 .. Len(plots) : plots[i].name = "plot" \o str(i - 1))
    => /\ Cardinality(DOMAIN plot_list.list) = Len(plots)
       /\ \A i \in 1 .. Len(plots) :
             /\ plots[i].name \in DOMAIN plot_list.list
             /\ plot_list.list[plots[i].name] = i

----------------------------------------------------------------------------
(* Claims about add_data, checked under SpecBind.                          *)

Max(a, b) == IF a > b THEN a ELSE b

LastBinding(p) == plots[p].data[Len(plots[p].data)]

Added(kind) == ev.op = "add_data" /\ plots[ev.plot].kind = kind

(* C7: Plot2D.add_data appends a binding whose coorddims is (0,) or the    *)
(* given (coorddim,) and whose valdim is max(nc, 1) or the given valdim,   *)
(* whether or not a notice was logged.                                     *)
C7_Plot2DDims ==
    Added("Plot2D")
    => /\ ev.raised = "none"
       /\ Len(plots[ev.plot].data) = Len(ev.before) + 1
       /\ LastBinding(ev.plot).data = ev.data
       /\ LastBinding(ev.plot).coorddims =
             (IF IsNone(ev.coorddim) THEN <<0>> ELSE <<Val(ev.coorddim)>>)
       /\ LastBinding(ev.plot).valdim =
             (IF IsNone(ev.valdim) THEN Max(datas[ev.data].nc, 1) ELSE Val(ev.valdim))

(* A Plot2D bound without dimensions to a source of 3 coordinate and 2     *)
(* value columns: both notices logged, coorddims (0,), valdim 3.           *)
C7_Witness ==
    /\ Added("Plot2D")
    /\ IsNone(ev.coorddim) /\ IsNone(ev.valdim)
    /\ datas[ev.data] = [nc |-> 3, nv |-> 2]
    /\ Cardinality(ev.notices) = 2
    /\ LastBinding(ev.plot).coorddims = <<0>>
    /\ LastBinding(ev.plot).valdim = 3

(* C8: Plot3D.add_data appends a binding whose coorddims is (0, 1) or the  *)
(* given pair and whose valdim is max(nc, 2) or the given valdim.          *)
C8_Plot3DDims ==
    Added("Plot3D")
    => /\ ev.raised = "none"
       /\ Len(plots[ev.plot].data) = Len(ev.before) + 1
       /\ LastBinding(ev.plot).data = ev.data
       /\ LastBinding(ev.plot).coorddims =
             (IF IsNone(ev.coorddim) THEN <<0, 1>> ELSE Val(ev.coorddim))
       /\ LastBinding(ev.plot).valdim =
             (IF IsNone(ev.valdim) THEN Max(datas[ev.data].nc, 2) ELSE Val(ev.valdim))

(* A Plot3D bound without dimensions to a source of 1 coordinate and 1     *)
(* value column: coorddims (0, 1), valdim 2.                               *)
C8_Witness ==
    /\ Added("Plot3D")
    /\ IsNone(ev.coorddim) /\ IsNone(ev.valdim)
    /\ datas[ev.data] = [nc |-> 1, nv |-> 1]
    /\ LastBinding(ev.plot).coorddims = <<0, 1>>
    /\ LastBinding(ev.plot).valdim = 2

Columns(d) == 0 .. (Data_ncolumns(datas, d) - 1)

(* The column indices the last add_data call was given explicitly.         *)
ExplicitDims ==
    (IF IsNone(ev.valdim) THEN {} ELSE {Val(ev.valdim)})
    \cup
    (IF IsNone(ev.coorddim) THEN {}
     ELSE IF plots[ev.plot].kind = "Plot3D"
          THEN {Val(ev.coorddim)[1], Val(ev.coorddim)[2]}
          ELSE {Val(ev.coorddim)})

(* C9: an add_data call given an explicit column index that is out of     *)
(* range for its source fails with InvalidDimension and leaves the plot's  *)
(* bindings and the connections as they were.                              *)
C9_InvalidDimension ==
    (ev.op = "add_data" /\ ~(ExplicitDims \subseteq Columns(ev.data)))
    => /\ ev.raised = "InvalidDimension"
       /\ plots[ev.plot].data = ev.before
       /\ conns = ev.cbefore

BindingDims(b) ==
    {b.valdim} \cup {b.coorddims[k] : k \in 1 .. Len(b.coorddims)}

(* C10: every binding a plot holds selects valid columns of its source.    *)
C10_ValidDims ==
    \A p \in 1 .. Len(plots) : \A k \in 1 .. Len(plots[p].data) :
        BindingDims(plots[p].data[k]) \subseteq Columns(plots[p].data[k].data)

----------------------------------------------------------------------------
(* Claims about bindings and subscriptions, checked under SpecSub.         *)

(* The Data objects of the bindings of plot p, in order.                   *)
BoundSources(p) == [k \in 1 .. Len(plots[p].data) |-> plots[p].data[k].data]

(* The Data objects whose signal is connected to plot p, in order.         *)
Subscribed(p, signal, cb) ==
    LET Mine(c) == c.plot = p /\ c.signal = signal /\ c.cb = cb
        sel == SelectSeq(conns, Mine)
    IN  [k \in 1 .. Len(sel) |-> sel[k].data]

(* C17: add_data appends one binding for its source at the end, whatever   *)
(* maxtraces is, and connects the plot's two handlers to the two signals   *)
(* of that source; so the sources of the bindings, in order, are the       *)
(* sources of the plot's subscriptions on either signal; and a handler run *)
(* is a non-forced update of its plot.                                     *)
C17_BindSubscribe ==
    /\ ev.op = "add_data"
       => /\ ev.raised = "none"
          /\ Len(plots[ev.plot].data) = Len(ev.before) + 1
          /\ SubSeq(plots[ev.plot].data, 1, Len(ev.before)) = ev.before
          /\ plots[ev.plot].data[Len(ev.before) + 1].data = ev.data
          /\ conns = ev.cbefore \o
                << [data |-> ev.data, signal |-> "new-data-point",
                    cb |-> "_new_data_point_cb", plot |-> ev.plot],
                   [data |-> ev.data, signal |-> "new-data-block",
                    cb |-> "_new_data_block_cb", plot |-> ev.plot] >>
    /\ \A p \in 1 .. Len(plots) :
          /\ Subscribed(p, "new-data-point", "_new_data_point_cb") = BoundSources(p)
          /\ Subscribed(p, "new-data-block", "_new_data_block_cb") = BoundSources(p)
          /\ Len(conns) = 2 * Len(plots[p].data)
    /\ ev.op \in {"point", "block"}
       => /\ ~ev.force
          /\ calls # <<>>
          /\ calls[Len(calls)].plot = ev.plot
          /\ calls[Len(calls)].fired = ev.fired
          /\ ev.fired <=> ThrottleAllows(ev, plots[ev.plot], config)

(* A plot with maxtraces 1 bound to the second Data object and then the    *)
(* first, redrawn by a new-data-block notification.                        *)
C17_Witness ==
    /\ Len(plots) = 1
    /\ Len(plots[1].data) > plots[1].maxtraces
    /\ BoundSources(1) = <<2, 1>>
    /\ ev.op = "block" /\ ev.fired

----------------------------------------------------------------------------
(* Claims about set_labels, checked under SpecLabels.                      *)

(* The position of the first binding satisfying Elig, 0 when there is none.*)
FirstEligible(bindings, Elig(_)) ==
    LET I == {k \in 1 .. Len(bindings) : Elig(bindings[k])}
    IN  IF I = {} THEN 0 ELSE CHOOSE k \in I : \A j \in I : k <= j

(* The setter calls owed to the labels in the set want.                    *)
OwedSetters(want) == {c \in want : c.label # ""}

SettersExact(want) ==
    /\ {ev.setters[k] : k \in 1 .. Len(ev.setters)} = OwedSetters(want)
    /\ Len(ev.setters) = Cardinality(OwedSetters(want))

(* The text the coordinate (value) column of a binding formats to.         *)
CoordLabel(b) == Data_format_label(datas, b.data, b.coorddims[1])
Coord2Label(b) == Data_format_label(datas, b.data, b.coorddims[2])
ValueLabel(b) == Data_format_label(datas, b.data, b.valdim)

(* An explicit label, or else the text Text gives for the first binding    *)
(* satisfying Elig, or else ''.                                            *)
FromFirst(arg, bindings, Elig(_), Text(_)) ==
    IF arg # "" THEN arg
    ELSE LET k == FirstEligible(bindings, Elig)
         IN  IF k = 0 THEN "" ELSE Text(bindings[k])

(* C18: after Plot2D.set_labels an explicit label stands; otherwise the    *)
(* right label is that of the first binding flagged right and the left     *)
(* label that of the first binding not flagged right, the top label that   *)
(* of the first binding flagged top and the bottom label that of the first *)
(* binding not flagged top; and the setters called are exactly those of    *)
(* the non-empty labels.                                                   *)
C18_OwnAxisOnly ==
    ev.op = "set_labels2d"
    => LET B == plots[ev.plot].data
           a == ev.args
           l == ev.labels
           Right(b) == "right" \in DOMAIN b
           Left(b) == "right" \notin DOMAIN b
           Top(b) == "top" \in DOMAIN b
           Bottom(b) == "top" \notin DOMAIN b
       IN  /\ l.right = FromFirst(a.right, B, Right, CoordLabel)
           /\ l.left = FromFirst(a.left, B, Left, CoordLabel)
           /\ l.top = FromFirst(a.top, B, Top, ValueLabel)
           /\ l.bottom = FromFirst(a.bottom, B, Bottom, ValueLabel)
           /\ SettersExact({SetterCall("set_xlabel", l.left, ""),
                            SetterCall("set_xlabel", l.right, "right"),
                            SetterCall("set_ylabel", l.bottom, ""),
                            SetterCall("set_ylabel", l.top, "top")})

AnyBinding(b) == TRUE

(* C19 as stated: after Plot3D.set_labels each label is the explicit one,  *)
(* or else what the first binding formats to, also when that is ''; and    *)
(* the setters called are exactly those of the non-empty labels.           *)
C19_FirstBindingOnly ==
    ev.op = "set_labels3d"
    => LET B == plots[ev.plot].data
           a == ev.args
           l == ev.labels
       IN  /\ l.x = FromFirst(a.x, B, AnyBinding, CoordLabel)
           /\ l.y = FromFirst(a.y, B, AnyBinding, Coord2Label)
           /\ l.z = FromFirst(a.z, B, AnyBinding, ValueLabel)
           /\ SettersExact({SetterCall("set_xlabel", l.x, ""),
                            SetterCall("set_ylabel", l.y, ""),
                            SetterCall("set_zlabel", l.z, "")})

(* C19 amended: after Plot3D.set_labels each label is the explicit one, or *)
(* else what the first binding with a non-empty text for that axis formats *)
(* to, or else ''; and the setters called are exactly those of the         *)
(* non-empty labels, in the order x, y, z.                                 *)
C19_FirstNonEmpty ==
    ev.op = "set_labels3d"
    => LET B == plots[ev.plot].data
           a == ev.args
           l == ev.labels
           HasX(b) == CoordLabel(b) # ""
           HasY(b) == Coord2Label(b) # ""
           HasZ(b) == ValueLabel(b) # ""
       IN  /\ l.x = FromFirst(a.x, B, HasX, CoordLabel)
           /\ l.y = FromFirst(a.y, B, HasY, Coord2Label)
           /\ l.z = FromFirst(a.z, B, HasZ, ValueLabel)
           /\ SettersExact({SetterCall("set_xlabel", l.x, ""),
                            SetterCall("set_ylabel", l.y, ""),
                            SetterCall("set_zlabel", l.z, "")})
           /\ \A i, j \in 1 .. Len(ev.setters) :
                 i < j => <<ev.setters[i].fn, ev.setters[j].fn>> \in
                            {<<"set_xlabel", "set_ylabel">>,
                             <<"set_xlabel", "set_zlabel">>,
                             <<"set_ylabel", "set_zlabel">>}

(* A Plot3D with two bindings: x was not passed and comes from the second  *)
(* binding because the first formats to '', y was passed and stands, z is  *)
(* empty in both and no z setter is called.                                *)
C19_Witness ==
    /\ ev.op = "set_labels3d"
    /\ Len(plots[ev.plot].data) = 2
    /\ ev.args.x = "" /\ CoordLabel(plots[ev.plot].data[1]) = ""
    /\ ev.labels.x = CoordLabel(plots[ev.plot].data[2]) /\ ev.labels.x # ""
    /\ ev.args.y = "Y" /\ ev.labels.y = "Y"
    /\ ev.args.z = "" /\ ev.labels.z = ""
    /\ ev.setters = << SetterCall("set_xlabel", ev.labels.x, ""),
                       SetterCall("set_ylabel", "Y", "") >>

====
